---- MODULE Spec2Model ----
(***************************************************************************)
(* Error responses of the Vehicle Information Service WebSocket server     *)
(* (src/api_error.rs): the ActionError triple, the KnownError catalog, the *)
(* conversions into ActionError, the tagged ActionErrorResponse envelope,  *)
(* its constructors and its serialized form.                               *)
(*                                                                         *)
(* The module is a library of pure functions; the state machine below is   *)
(* the caller of spec section 2: a fault is detected, an ActionError is    *)
(* selected or built, an envelope constructor is called, the envelope is   *)
(* serialized and then discarded.                                          *)
(***************************************************************************)
EXTENDS Integers, Sequences, FiniteSets, TLC

(***************************************************************************)
(* Bounds of the model.                                                    *)
(***************************************************************************)
MaxClock == 1
MaxEnvelopes == 2

(***************************************************************************)
(* http::status::StatusCode: the associated constants the module uses and  *)
(* the canonical reason phrases of the http crate.                         *)
(***************************************************************************)
StatusCode_NOT_MODIFIED == 304
StatusCode_BAD_REQUEST == 400
StatusCode_UNAUTHORIZED == 401
StatusCode_FORBIDDEN == 403
StatusCode_NOT_FOUND == 404
StatusCode_NOT_ACCEPTABLE == 406
StatusCode_TOO_MANY_REQUESTS == 429
StatusCode_INTERNAL_SERVER_ERROR == 500
StatusCode_BAD_GATEWAY == 502
StatusCode_SERVICE_UNAVAILABLE == 503
StatusCode_GATEWAY_TIMEOUT == 504

\* Option<&'static str>
None == [some |-> FALSE]
Some(v) == [some |-> TRUE, val |-> v]

ReasonPhrases ==
    (100 :> "Continue") @@ (101 :> "Switching Protocols") @@ (102 :> "Processing") @@
    (103 :> "Early Hints") @@
    (200 :> "OK") @@ (201 :> "Created") @@ (202 :> "Accepted") @@
    (203 :> "Non Authoritative Information") @@ (204 :> "No Content") @@
    (205 :> "Reset Content") @@ (206 :> "Partial Content") @@ (207 :> "Multi-Status") @@
    (208 :> "Already Reported") @@ (226 :> "IM Used") @@
    (300 :> "Multiple Choices") @@ (301 :> "Moved Permanently") @@ (302 :> "Found") @@
    (303 :> "See Other") @@ (304 :> "Not Modified") @@ (305 :> "Use Proxy") @@
    (307 :> "Temporary Redirect") @@ (308 :> "Permanent Redirect") @@
    (400 :> "Bad Request") @@ (401 :> "Unauthorized") @@ (402 :> "Payment Required") @@
    (403 :> "Forbidden") @@ (404 :> "Not Found") @@ (405 :> "Method Not Allowed") @@
    (406 :> "Not Acceptable") @@ (407 :> "Proxy Authentication Required") @@
    (408 :> "Request Timeout") @@ (409 :> "Conflict") @@ (410 :> "Gone") @@
    (411 :> "Length Required") @@ (412 :> "Precondition Failed") @@
    (413 :> "Payload Too Large") @@ (414 :> "URI Too Long") @@
    (415 :> "Unsupported Media Type") @@ (416 :> "Range Not Satisfiable") @@
    (417 :> "Expectation Failed") @@ (418 :> "I'm a teapot") @@
    (421 :> "Misdirected Request") @@ (422 :> "Unprocessable Entity") @@
    (423 :> "Locked") @@ (424 :> "Failed Dependency") @@ (425 :> "Too Early") @@
    (426 :> "Upgrade Required") @@
    (428 :> "Precondition Required") @@ (429 :> "Too Many Requests") @@
    (431 :> "Request Header Fields Too Large") @@
    (451 :> "Unavailable For Legal Reasons") @@
    (500 :> "Internal Server Error") @@ (501 :> "Not Implemented") @@
    (502 :> "Bad Gateway") @@ (503 :> "Service Unavailable") @@
    (504 :> "Gateway Timeout") @@ (505 :> "HTTP Version Not Supported") @@
    (506 :> "Variant Also Negotiates") @@ (507 :> "Insufficient Storage") @@
    (508 :> "Loop Detected") @@ (510 :> "Not Extended") @@
    (511 :> "Network Authentication Required")

\* StatusCode::as_u16
as_u16(status_code) == status_code

\* StatusCode::canonical_reason
canonical_reason(status_code) ==
    IF status_code \in DOMAIN ReasonPhrases
    THEN Some(ReasonPhrases[status_code])
    ELSE None

\* Option::unwrap_or_default for &str
unwrap_or_default(opt) == IF opt.some THEN opt.val ELSE ""

(***************************************************************************)
(* Inputs.  A StatusCode holds a number in 100..999; the set below has the *)
(* statuses of the catalog, 500, three more recognized ones (103 and 425   *)
(* among them) and three that have no canonical reason.                    *)
(***************************************************************************)
StatusCodes ==
    { StatusCode_NOT_MODIFIED, StatusCode_BAD_REQUEST, StatusCode_UNAUTHORIZED,
      StatusCode_FORBIDDEN, StatusCode_NOT_FOUND, StatusCode_NOT_ACCEPTABLE,
      StatusCode_TOO_MANY_REQUESTS, StatusCode_INTERNAL_SERVER_ERROR,
      StatusCode_BAD_GATEWAY, StatusCode_SERVICE_UNAVAILABLE,
      StatusCode_GATEWAY_TIMEOUT, 103, 200, 425, 299, 499, 999 }

Messages == { "", "Signal not found." }

\* io::Error: a kind and a text
IoErrors ==
    { [kind |-> "BrokenPipe", text |-> "broken pipe"],
      [kind |-> "PermissionDenied", text |-> "permission denied"] }

(***************************************************************************)
(* struct ActionError { number, reason, message }                          *)
(***************************************************************************)
ActionError(number, reason, message) ==
    [number |-> number, reason |-> reason, message |-> message]

\* as ActionError::new, with the reason left at its default
ActionError_new_no_reason(http_status_code, message) ==
    ActionError(as_u16(http_status_code), "", message)

\* ActionError::new
ActionError_new(http_status_code, message) ==
    ActionError(as_u16(http_status_code),
                unwrap_or_default(canonical_reason(http_status_code)),
                message)

\* the line warn!("io::Error {:?}", error) writes
WarnLine(error) == <<"io::Error", error.kind, error.text>>

\* as From<io::Error>, with the failure's text as the message
ActionError_from_io_Error_text(error) ==
    ActionError(as_u16(StatusCode_INTERNAL_SERVER_ERROR),
                unwrap_or_default(canonical_reason(StatusCode_INTERNAL_SERVER_ERROR)),
                error.text)

\* as From<io::Error>, with the reason left at its default
ActionError_from_io_Error_no_reason(error) ==
    ActionError(as_u16(StatusCode_INTERNAL_SERVER_ERROR), "", "")

\* impl From<io::Error> for ActionError (the value; the warn! line is in the action)
ActionError_from_io_Error(error) ==
    ActionError(as_u16(StatusCode_INTERNAL_SERVER_ERROR),
                unwrap_or_default(canonical_reason(StatusCode_INTERNAL_SERVER_ERROR)),
                "")

\* impl From<StatusCode> for ActionError
ActionError_from_StatusCode(status_code) ==
    ActionError(as_u16(status_code),
                unwrap_or_default(canonical_reason(status_code)),
                "")

\* new_deserialization_error
new_deserialization_error == ActionError_from_StatusCode(StatusCode_BAD_REQUEST)

(***************************************************************************)
(* struct KnownError(StatusCode, &str, &str) and the catalog               *)
(***************************************************************************)
KnownError(status, reason, message) == <<status, reason, message>>

\* as From<KnownError>, with the reason looked up from the status
ActionError_from_KnownError_canonical(known_error) ==
    ActionError_new(known_error[1], known_error[3])

\* as From<KnownError>, with the message left empty
ActionError_from_KnownError_no_message(known_error) ==
    ActionError(as_u16(known_error[1]), known_error[2], "")

\* impl From<KnownError> for ActionError
ActionError_from_KnownError(known_error) ==
    ActionError(as_u16(known_error[1]), known_error[2], known_error[3])

NOT_MODIFIED ==
    KnownError(StatusCode_NOT_MODIFIED, "not_modified",
               "No changes have been made by the server.")
BAD_REQUEST ==
    KnownError(StatusCode_BAD_REQUEST, "bad_request",
               "The server is unable to fulfill the client request because the request is malformed.")
BAD_REQUEST_FILTER_INVALID ==
    KnownError(StatusCode_BAD_REQUEST, "filter_invalid",
               "Filter requested on non-primitive type.")
UNAUTHORIZED_USER_TOKEN_EXPIRED ==
    KnownError(StatusCode_UNAUTHORIZED, "user_token_expired", "User token has expired.")
UNAUTHORIZED_USER_TOKEN_INVALID ==
    KnownError(StatusCode_UNAUTHORIZED, "user_token_invalid", "User token is invalid.")
UNAUTHORIZED_USER_TOKEN_MISSING ==
    KnownError(StatusCode_UNAUTHORIZED, "user_token_missing", "User token is missing.")
UNAUTHORIZED_DEVICE_TOKEN_EXPIRED ==
    KnownError(StatusCode_UNAUTHORIZED, "device_token_expired", "Device token has expired.")
\* the device constant with the reason of the user constant it was copied from
UNAUTHORIZED_DEVICE_TOKEN_INVALID_copied ==
    KnownError(StatusCode_UNAUTHORIZED, "user_token_invalid", "Device token is invalid.")
UNAUTHORIZED_DEVICE_TOKEN_INVALID ==
    KnownError(StatusCode_UNAUTHORIZED, "device_token_invalid", "Device token is invalid.")
UNAUTHORIZED_DEVICE_TOKEN_MISSING ==
    KnownError(StatusCode_UNAUTHORIZED, "device_token_missing", "Device token is missing.")
UNAUTHORIZED_TOO_MANY_ATTEMPTS ==
    KnownError(StatusCode_UNAUTHORIZED, "too_many_attempts",
               "The client has failed to authenticate too many times.")
UNAUTHORIZED_READ_ONLY ==
    KnownError(StatusCode_UNAUTHORIZED, "read_only",
               "The desired signal cannot be set since it is a read only signal.")
FORBIDDEN_USER_FORBIDDEN ==
    KnownError(StatusCode_FORBIDDEN, "user_forbidden",
               "The user is not permitted to access the requested resource. Retrying does not help.")
FORBIDDEN_USER_UNKNOWN ==
    KnownError(StatusCode_FORBIDDEN, "user_unknown",
               "The user is unknown. Retrying does not help.")
FORBIDDEN_DEVICE_FORBIDDEN ==
    KnownError(StatusCode_FORBIDDEN, "device_forbidden",
               "The device is not permitted to access the requested resource. Retrying does not help.")
FORBIDDEN_DEVICE_UNKNOWN ==
    KnownError(StatusCode_FORBIDDEN, "device_unknown",
               "The device is unknown. Retrying does not help.")
NOT_FOUND_INVALID_PATH ==
    KnownError(StatusCode_NOT_FOUND, "invalid_path",
               "The specified data path does not exist.")
NOT_FOUND_PRIVATE_PATH ==
    KnownError(StatusCode_NOT_FOUND, "private_path",
               "The specified data path is private and the request is not authorized to access signals on this path.")
NOT_FOUND_INVALID_SUBSCRIPTION_ID ==
    KnownError(StatusCode_NOT_FOUND, "invalid_subscriptionId",
               "The specified subscription was not found.")
NOT_ACCEPTABLE ==
    KnownError(StatusCode_NOT_ACCEPTABLE, "not_acceptable",
               "The server is unable to generate content that is acceptable to the client")
TOO_MANY_REQUESTS ==
    KnownError(StatusCode_TOO_MANY_REQUESTS, "too_many_requests",
               "The client has sent the server too many requests in a given amount of time.")
BAD_GATEWAY ==
    KnownError(StatusCode_BAD_GATEWAY, "bad_gateway",
               "The server was acting as a gateway or proxy and received an invalid response from an upstream server.")
SERVICE_UNAVAILABLE ==
    KnownError(StatusCode_SERVICE_UNAVAILABLE, "service_unavailable",
               "The server is currently unable to handle the request due to a temporary overload or scheduled maintenance (which may be alleviated after some delay).")
GATEWAY_TIMEOUT ==
    KnownError(StatusCode_GATEWAY_TIMEOUT, "gateway_timeout",
               "The server did not receive a timely response from an upstream server it needed to access in order to complete the request.")

\* the pub const KnownError items of the module, by name
KnownErrorCatalog ==
    [ NOT_MODIFIED |-> NOT_MODIFIED,
      BAD_REQUEST |-> BAD_REQUEST,
      BAD_REQUEST_FILTER_INVALID |-> BAD_REQUEST_FILTER_INVALID,
      UNAUTHORIZED_USER_TOKEN_EXPIRED |-> UNAUTHORIZED_USER_TOKEN_EXPIRED,
      UNAUTHORIZED_USER_TOKEN_INVALID |-> UNAUTHORIZED_USER_TOKEN_INVALID,
      UNAUTHORIZED_USER_TOKEN_MISSING |-> UNAUTHORIZED_USER_TOKEN_MISSING,
      UNAUTHORIZED_DEVICE_TOKEN_EXPIRED |-> UNAUTHORIZED_DEVICE_TOKEN_EXPIRED,
      UNAUTHORIZED_DEVICE_TOKEN_INVALID |-> UNAUTHORIZED_DEVICE_TOKEN_INVALID,
      UNAUTHORIZED_DEVICE_TOKEN_MISSING |-> UNAUTHORIZED_DEVICE_TOKEN_MISSING,
      UNAUTHORIZED_TOO_MANY_ATTEMPTS |-> UNAUTHORIZED_TOO_MANY_ATTEMPTS,
      UNAUTHORIZED_READ_ONLY |-> UNAUTHORIZED_READ_ONLY,
      FORBIDDEN_USER_FORBIDDEN |-> FORBIDDEN_USER_FORBIDDEN,
      FORBIDDEN_USER_UNKNOWN |-> FORBIDDEN_USER_UNKNOWN,
      FORBIDDEN_DEVICE_FORBIDDEN |-> FORBIDDEN_DEVICE_FORBIDDEN,
      FORBIDDEN_DEVICE_UNKNOWN |-> FORBIDDEN_DEVICE_UNKNOWN,
      NOT_FOUND_INVALID_PATH |-> NOT_FOUND_INVALID_PATH,
      NOT_FOUND_PRIVATE_PATH |-> NOT_FOUND_PRIVATE_PATH,
      NOT_FOUND_INVALID_SUBSCRIPTION_ID |-> NOT_FOUND_INVALID_SUBSCRIPTION_ID,
      NOT_ACCEPTABLE |-> NOT_ACCEPTABLE,
      TOO_MANY_REQUESTS |-> TOO_MANY_REQUESTS,
      BAD_GATEWAY |-> BAD_GATEWAY,
      SERVICE_UNAVAILABLE |-> SERVICE_UNAVAILABLE,
      GATEWAY_TIMEOUT |-> GATEWAY_TIMEOUT ]

KnownErrorNames == DOMAIN KnownErrorCatalog

(***************************************************************************)
(* crate::api_type::{ReqID, SubscriptionID}: an identifier is an integer   *)
(* or a string, and is written to the wire as that integer or string.      *)
(***************************************************************************)
ReqIDInt(n) == [ReqIDInt |-> n]
ReqIDStr(s) == [ReqIDStr |-> s]
SubscriptionIDInt(n) == [SubscriptionIDInt |-> n]
SubscriptionIDStr(s) == [SubscriptionIDStr |-> s]

\* the integer or string an identifier is written as
WireForm(id) == id[CHOOSE tag \in DOMAIN id : TRUE]

ReqIDs == { ReqIDInt(42), ReqIDStr("r-7") }
SubscriptionIDs == { SubscriptionIDInt(99), SubscriptionIDStr("s-1") }

(***************************************************************************)
(* enum ActionErrorResponse.  A variant's name is the sequence of its      *)
(* characters, so that serde's rename_all = "camelCase" can act on it.     *)
(***************************************************************************)
Authorize == <<"A","u","t","h","o","r","i","z","e">>
GetMetadata == <<"G","e","t","M","e","t","a","d","a","t","a">>
Get == <<"G","e","t">>
Set == <<"S","e","t">>
Subscribe == <<"S","u","b","s","c","r","i","b","e">>
Subscription == <<"S","u","b","s","c","r","i","p","t","i","o","n">>
SubscriptionNotification ==
    <<"S","u","b","s","c","r","i","p","t","i","o","n",
      "N","o","t","i","f","i","c","a","t","i","o","n">>
Unsubscribe == <<"U","n","s","u","b","s","c","r","i","b","e">>
UnsubscribeAll == <<"U","n","s","u","b","s","c","r","i","b","e","A","l","l">>

VARIABLES
    now,        \* the wall clock unix_timestamp_ms reads, in milliseconds
    err,        \* Option<ActionError>: the error the caller holds
    origin,     \* Option: the conversion that built err, with its input
    env,        \* Option<ActionErrorResponse>: the envelope the caller holds
    call,       \* Option: the call that built env, with its inputs and the clock at the call
    wire,       \* Option: the serialized form of env, once written
    stamps,     \* the timestamps of the envelopes built so far, in call order
    warned      \* Option: the line warn! wrote last

vars == <<now, err, origin, env, call, wire, stamps, warned>>

\* crate::unix_timestamp_ms: the wall clock's milliseconds since the Unix epoch
unix_timestamp_ms == now

(***************************************************************************)
(* The envelope constructors.                                              *)
(***************************************************************************)
\* as From<io::Error> for ActionErrorResponse, with another subscription identifier
ActionErrorResponse_from_io_Error_one(error) ==
    [variant |-> SubscriptionNotification,
     error |-> ActionError_new(StatusCode_INTERNAL_SERVER_ERROR, ""),
     timestamp |-> unix_timestamp_ms,
     subscription_id |-> SubscriptionIDInt(1)]

\* impl From<io::Error> for ActionErrorResponse
ActionErrorResponse_from_io_Error(error) ==
    [variant |-> SubscriptionNotification,
     error |-> ActionError_new(StatusCode_INTERNAL_SERVER_ERROR, ""),
     timestamp |-> unix_timestamp_ms,
     subscription_id |-> SubscriptionIDInt(0)]

new_get_error(request_id, error) ==
    [variant |-> Get, request_id |-> request_id, error |-> error,
     timestamp |-> unix_timestamp_ms]

\* as new_set_error, building the variant of new_get_error
new_set_error_as_get(request_id, error) ==
    [variant |-> Get, request_id |-> request_id, error |-> error,
     timestamp |-> unix_timestamp_ms]

new_set_error(request_id, error) ==
    [variant |-> Set, request_id |-> request_id, error |-> error,
     timestamp |-> unix_timestamp_ms]

new_subscribe_error(request_id, error) ==
    [variant |-> Subscribe, request_id |-> request_id, error |-> error,
     timestamp |-> unix_timestamp_ms]

new_unsubscribe_error(request_id, subscription_id, error) ==
    [variant |-> Unsubscribe, request_id |-> request_id,
     subscription_id |-> subscription_id, error |-> error,
     timestamp |-> unix_timestamp_ms]

new_unsubscribe_all_error(request_id, error) ==
    [variant |-> UnsubscribeAll, request_id |-> request_id, error |-> error,
     timestamp |-> unix_timestamp_ms]

new_get_metadata_error(request_id, error) ==
    [variant |-> GetMetadata, request_id |-> request_id, error |-> error,
     timestamp |-> unix_timestamp_ms]

new_authorize_error(request_id, error) ==
    [variant |-> Authorize, request_id |-> request_id, error |-> error,
     timestamp |-> unix_timestamp_ms]

(***************************************************************************)
(* #[derive(Serialize)] with #[serde(tag = "action")] and                  *)
(* #[serde(rename_all = "camelCase")] on the enum, #[serde(rename = ..)]   *)
(* on the identifier fields.  The serialized form is the JSON object, a    *)
(* function from the member names that are written to their values.        *)
(***************************************************************************)
to_ascii_lowercase(c) ==
    CASE c = "A" -> "a" [] c = "B" -> "b" [] c = "C" -> "c" [] c = "D" -> "d"
      [] c = "E" -> "e" [] c = "F" -> "f" [] c = "G" -> "g" [] c = "H" -> "h"
      [] c = "I" -> "i" [] c = "J" -> "j" [] c = "K" -> "k" [] c = "L" -> "l"
      [] c = "M" -> "m" [] c = "N" -> "n" [] c = "O" -> "o" [] c = "P" -> "p"
      [] c = "Q" -> "q" [] c = "R" -> "r" [] c = "S" -> "s" [] c = "T" -> "t"
      [] c = "U" -> "u" [] c = "V" -> "v" [] c = "W" -> "w" [] c = "X" -> "x"
      [] c = "Y" -> "y" [] c = "Z" -> "z" [] OTHER -> c

\* rename_all = "camelCase" on a variant name: its first character in lower case
CamelCase(variant) ==
    IF variant = <<>> THEN <<>>
    ELSE <<to_ascii_lowercase(Head(variant))>> \o Tail(variant)

\* as MemberName, without the rename of request_id
MemberName_no_rename(field) ==
    CASE field = "subscription_id" -> "subscriptionId"
      [] OTHER -> field

\* the member name a field is written under
MemberName(field) ==
    CASE field = "request_id" -> "requestId"
      [] field = "subscription_id" -> "subscriptionId"
      [] OTHER -> field

\* the value a field is written as: an identifier as its integer or string,
\* the error as the object of its three fields, the timestamp as a number
MemberValue(response, field) ==
    CASE field = "request_id" -> WireForm(response.request_id)
      [] field = "subscription_id" -> WireForm(response.subscription_id)
      [] OTHER -> response[field]

Serialize(response) ==
    LET fields == (DOMAIN response) \ {"variant"}
        members == {"action"} \cup { MemberName(f) : f \in fields }
    IN  [ m \in members |->
            IF m = "action" THEN CamelCase(response.variant)
            ELSE MemberValue(response, CHOOSE f \in fields : MemberName(f) = m) ]

(***************************************************************************)
(* The state machine.                                                      *)
(***************************************************************************)
Init ==
    /\ now = 0
    /\ err = None
    /\ origin = None
    /\ env = None
    /\ call = None
    /\ wire = None
    /\ stamps = <<>>
    /\ warned = None

\* the wall clock advances
Tick ==
    /\ now < MaxClock
    /\ now' = now + 1
    /\ UNCHANGED <<err, origin, env, call, wire, stamps, warned>>

\* the wall clock is set back (an adjustment of the system time)
SetBack ==
    /\ now > 0
    /\ \E t \in 0..(now - 1) : now' = t
    /\ UNCHANGED <<err, origin, env, call, wire, stamps, warned>>

\* the caller builds an error with ActionError::new(status, message)
BuildNew ==
    /\ env = None
    /\ \E s \in StatusCodes, m \in Messages :
          /\ err' = Some(ActionError_new(s, m))
          /\ origin' = Some([op |-> "new", status |-> s, message |-> m])
    /\ UNCHANGED <<now, env, call, wire, stamps, warned>>

\* the caller converts an io::Error into an ActionError
BuildFromIoError ==
    /\ env = None
    /\ \E e \in IoErrors :
          /\ warned' = Some(WarnLine(e))
          /\ err' = Some(ActionError_from_io_Error(e))
          /\ origin' = Some([op |-> "from_io_error", error |-> e])
    /\ UNCHANGED <<now, env, call, wire, stamps>>

\* the caller converts a bare StatusCode into an ActionError
BuildFromStatusCode ==
    /\ env = None
    /\ \E s \in StatusCodes :
          /\ err' = Some(ActionError_from_StatusCode(s))
          /\ origin' = Some([op |-> "from_status_code", status |-> s])
    /\ UNCHANGED <<now, env, call, wire, stamps, warned>>

\* the caller converts a catalog constant into an ActionError
BuildFromKnownError ==
    /\ env = None
    /\ \E k \in KnownErrorNames :
          /\ err' = Some(ActionError_from_KnownError(KnownErrorCatalog[k]))
          /\ origin' = Some([op |-> "from_known_error", name |-> k])
    /\ UNCHANGED <<now, env, call, wire, stamps, warned>>

\* the caller calls new_deserialization_error()
BuildDeserializationError ==
    /\ env = None
    /\ err' = Some(new_deserialization_error)
    /\ origin' = Some([op |-> "new_deserialization_error"])
    /\ UNCHANGED <<now, env, call, wire, stamps, warned>>

\* what every envelope-building call leaves behind; the ActionError is Copy,
\* the caller still holds it
Built(response, record) ==
    /\ env' = Some(response)
    /\ call' = Some(record)
    /\ wire' = None
    /\ stamps' = Append(stamps, response.timestamp)
    /\ UNCHANGED <<now, err, origin, warned>>

CanBuild == env = None /\ Len(stamps) < MaxEnvelopes

CallNewGetError ==
    /\ CanBuild /\ err.some
    /\ \E r \in ReqIDs :
          Built(new_get_error(r, err.val),
                [op |-> "new_get_error", request_id |-> r, error |-> err.val, at |-> now])

CallNewSetError ==
    /\ CanBuild /\ err.some
    /\ \E r \in ReqIDs :
          Built(new_set_error(r, err.val),
                [op |-> "new_set_error", request_id |-> r, error |-> err.val, at |-> now])

CallNewSubscribeError ==
    /\ CanBuild /\ err.some
    /\ \E r \in ReqIDs :
          Built(new_subscribe_error(r, err.val),
                [op |-> "new_subscribe_error", request_id |-> r, error |-> err.val, at |-> now])

CallNewUnsubscribeError ==
    /\ CanBuild /\ err.some
    /\ \E r \in ReqIDs, s \in SubscriptionIDs :
          Built(new_unsubscribe_error(r, s, err.val),
                [op |-> "new_unsubscribe_error", request_id |-> r,
                 subscription_id |-> s, error |-> err.val, at |-> now])

CallNewUnsubscribeAllError ==
    /\ CanBuild /\ err.some
    /\ \E r \in ReqIDs :
          Built(new_unsubscribe_all_error(r, err.val),
                [op |-> "new_unsubscribe_all_error", request_id |-> r, error |-> err.val, at |-> now])

CallNewGetMetadataError ==
    /\ CanBuild /\ err.some
    /\ \E r \in ReqIDs :
          Built(new_get_metadata_error(r, err.val),
                [op |-> "new_get_metadata_error", request_id |-> r, error |-> err.val, at |-> now])

CallNewAuthorizeError ==
    /\ CanBuild /\ err.some
    /\ \E r \in ReqIDs :
          Built(new_authorize_error(r, err.val),
                [op |-> "new_authorize_error", request_id |-> r, error |-> err.val, at |-> now])

\* the caller converts an io::Error into an envelope
ConvertIoError ==
    /\ CanBuild
    /\ \E e \in IoErrors :
          Built(ActionErrorResponse_from_io_Error(e),
                [op |-> "from_io_error", io |-> e, at |-> now])

\* the envelope is serialized
Write ==
    /\ env.some /\ ~wire.some
    /\ wire' = Some(Serialize(env.val))
    /\ UNCHANGED <<now, err, origin, env, call, stamps, warned>>

\* the written envelope is discarded
Discard ==
    /\ env.some /\ wire.some
    /\ env' = None /\ call' = None /\ wire' = None
    /\ UNCHANGED <<now, err, origin, stamps, warned>>

Next ==
    \/ Tick
    \/ SetBack
    \/ BuildNew
    \/ BuildFromIoError
    \/ BuildFromStatusCode
    \/ BuildFromKnownError
    \/ BuildDeserializationError
    \/ CallNewGetError
    \/ CallNewSetError
    \/ CallNewSubscribeError
    \/ CallNewUnsubscribeError
    \/ CallNewUnsubscribeAllError
    \/ CallNewGetMetadataError
    \/ CallNewAuthorizeError
    \/ ConvertIoError
    \/ Write
    \/ Discard

Spec == Init /\ [][Next]_vars

(***************************************************************************)
(* Properties.                                                             *)
(***************************************************************************)
ConstructorOps ==
    { "new_get_error", "new_set_error", "new_subscribe_error",
      "new_unsubscribe_error", "new_unsubscribe_all_error",
      "new_get_metadata_error", "new_authorize_error" }

\* the variant each constructor is named after
VariantNamed(op) ==
    CASE op = "new_get_error" -> Get
      [] op = "new_set_error" -> Set
      [] op = "new_subscribe_error" -> Subscribe
      [] op = "new_unsubscribe_error" -> Unsubscribe
      [] op = "new_unsubscribe_all_error" -> UnsubscribeAll
      [] op = "new_get_metadata_error" -> GetMetadata
      [] op = "new_authorize_error" -> Authorize

\* the action name each constructor is documented with
ActionNamed(op) ==
    CASE op = "new_get_error" -> <<"g","e","t">>
      [] op = "new_set_error" -> <<"s","e","t">>
      [] op = "new_subscribe_error" -> <<"s","u","b","s","c","r","i","b","e">>
      [] op = "new_unsubscribe_error" -> <<"u","n","s","u","b","s","c","r","i","b","e">>
      [] op = "new_unsubscribe_all_error" ->
            <<"u","n","s","u","b","s","c","r","i","b","e","A","l","l">>
      [] op = "new_get_metadata_error" -> <<"g","e","t","M","e","t","a","d","a","t","a">>
      [] op = "new_authorize_error" -> <<"a","u","t","h","o","r","i","z","e">>

FromConstructor == env.some /\ call.val.op \in ConstructorOps
FromIoConversion == env.some /\ call.val.op = "from_io_error"

\* C1: the envelope a constructor returns is the variant named after the
\* constructor's action, is written with that action name as its tag, and
\* carries the request id, the error and (for unsubscribe) the subscription
\* id it was given, unchanged.
C1_ConstructorBuildsItsVariant ==
    FromConstructor =>
        LET e == env.val
            c == call.val
        IN  /\ e.variant = VariantNamed(c.op)
            /\ e.request_id = c.request_id
            /\ e.error = c.error
            /\ (c.op = "new_unsubscribe_error" =>
                    e.subscription_id = c.subscription_id)
            /\ (wire.some =>
                    /\ wire.val.action = ActionNamed(c.op)
                    /\ wire.val.error = c.error)

C1_Witness ==
    /\ FromConstructor /\ wire.some
    /\ call.val.op = "new_unsubscribe_error"
    /\ call.val.request_id = ReqIDStr("r-7")
    /\ call.val.subscription_id = SubscriptionIDInt(99)
    /\ call.val.error = ActionError_from_KnownError(NOT_FOUND_INVALID_SUBSCRIPTION_ID)

\* C2: in every envelope, built by a constructor or by the I/O-failure
\* conversion, subscription_id is a field exactly of the Unsubscribe and
\* SubscriptionNotification variants and request_id exactly of the variants
\* other than SubscriptionNotification; the written object has the member
\* subscriptionId, respectively requestId, exactly in those cases, and a
\* member that is written holds the identifier, not a null.
C2_IdentifierMembers ==
    env.some =>
        LET e == env.val
            hasSub == e.variant \in {Unsubscribe, SubscriptionNotification}
            hasReq == e.variant # SubscriptionNotification
        IN  /\ ("subscription_id" \in DOMAIN e) <=> hasSub
            /\ ("request_id" \in DOMAIN e) <=> hasReq
            /\ (wire.some =>
                    LET w == wire.val
                    IN  /\ ("subscriptionId" \in DOMAIN w) <=> hasSub
                        /\ ("requestId" \in DOMAIN w) <=> hasReq
                        /\ "subscription_id" \notin DOMAIN w
                        /\ "request_id" \notin DOMAIN w
                        /\ (hasSub => w.subscriptionId = WireForm(e.subscription_id))
                        /\ (hasReq => w.requestId = WireForm(e.request_id)))

C2_Witness ==
    /\ env.some /\ wire.some
    /\ env.val.variant = Subscribe
    /\ "subscriptionId" \notin DOMAIN wire.val
    /\ "requestId" \in DOMAIN wire.val

\* C3: an I/O failure converts to the ActionError with number 500 and an
\* empty message, and the result is the one every I/O failure converts to.
C3_IoErrorConvertsTo500 ==
    (origin.some /\ origin.val.op = "from_io_error") =>
        /\ err.val.number = 500
        /\ err.val.message = ""
        /\ \A e \in IoErrors : err.val = ActionError_from_io_Error(e)

C3_Witness ==
    /\ origin.some /\ origin.val.op = "from_io_error"
    /\ origin.val.error.text = "permission denied"
    /\ warned = Some(WarnLine(origin.val.error))

\* C4: the conversion of an I/O failure to an envelope gives the
\* SubscriptionNotification variant with the integer subscription id 0, an
\* error with number 500 and an empty message, no request id, and the
\* clock's value at the conversion as the timestamp.
C4_IoErrorEnvelope ==
    FromIoConversion =>
        LET e == env.val
        IN  /\ e.variant = SubscriptionNotification
            /\ e.subscription_id = SubscriptionIDInt(0)
            /\ e.error.number = 500
            /\ e.error.message = ""
            /\ "request_id" \notin DOMAIN e
            /\ e.timestamp = call.val.at

C4_Witness ==
    /\ FromIoConversion
    /\ env.val.timestamp = 0
    /\ now = 1
    /\ Len(stamps) = 2

C6_KnownErrorCopied ==
    (origin.some /\ origin.val.op = "from_known_error") =>
        LET k == KnownErrorCatalog[origin.val.name]
        IN  /\ err.val.number = k[1]
            /\ err.val.reason = k[2]
            /\ err.val.message = k[3]
            /\ err.val.number = ActionError_from_StatusCode(k[1]).number

C6_Witness ==
    /\ origin.some /\ origin.val.op = "from_known_error"
    /\ origin.val.name = "UNAUTHORIZED_USER_TOKEN_EXPIRED"
    /\ err.val.reason # ActionError_from_StatusCode(StatusCode_UNAUTHORIZED).reason

CatalogStatuses == {304, 400, 401, 403, 404, 406, 429, 502, 503, 504}

\* no two constants of the catalog have the same reason
CatalogReasonsDistinct ==
    \A a, b \in KnownErrorNames :
        a # b => KnownErrorCatalog[a][2] # KnownErrorCatalog[b][2]

\* every constant of the catalog has one of the ten statuses
CatalogStatusesListed ==
    \A a \in KnownErrorNames : KnownErrorCatalog[a][1] \in CatalogStatuses

CatalogWellFormed ==
    /\ CatalogReasonsDistinct
    /\ CatalogStatusesListed
    /\ (origin.some /\ origin.val.op = "from_known_error") =>
          /\ err.val.number \in CatalogStatuses
          /\ \A a \in KnownErrorNames :
                KnownErrorCatalog[a][2] = err.val.reason => a = origin.val.name

\* C7, as stated: the catalog has 24 constants, no two of them have the same
\* reason, and every status is one of the ten listed.
C7_AsStated ==
    /\ Cardinality(KnownErrorNames) = 24
    /\ CatalogWellFormed

\* C7, amended: the catalog has 23 constants, no two of them have the same
\* reason, and every status is one of the ten listed; the reason of an
\* ActionError built from the catalog names its entry.
C7_CatalogOf23 ==
    /\ Cardinality(KnownErrorNames) = 23
    /\ CatalogWellFormed

C7_Witness ==
    /\ origin.some /\ origin.val.op = "from_known_error"
    /\ origin.val.name = "UNAUTHORIZED_DEVICE_TOKEN_INVALID"
    /\ err.val.number = KnownErrorCatalog["UNAUTHORIZED_USER_TOKEN_INVALID"][1]

\* C8: ActionError::new and the conversion of a bare status give, for every
\* status, an ActionError whose number is the status, whose reason is the
\* canonical phrase of a recognized status and empty otherwise, and whose
\* message is the one given (empty for the bare status).
C8_NewNeverFails ==
    (origin.some /\ origin.val.op \in {"new", "from_status_code"}) =>
        LET s == origin.val.status
            m == IF origin.val.op = "new" THEN origin.val.message ELSE ""
        IN  /\ err.some
            /\ DOMAIN err.val = {"number", "reason", "message"}
            /\ err.val.number = s
            /\ err.val.message = m
            /\ (s \in DOMAIN ReasonPhrases => err.val.reason = ReasonPhrases[s])
            /\ (s \notin DOMAIN ReasonPhrases => err.val.reason = "")

C8_Witness ==
    /\ origin.some /\ origin.val.op = "new"
    /\ origin.val.status = 299
    /\ origin.val.message # ""
    /\ err.val.reason = ""

\* C9: an ActionError with an empty message was built by the conversion of
\* a bare status or of an I/O failure, by new_deserialization_error, or by
\* ActionError::new with an empty message; one built from a catalog entry
\* has a reason and a message that are not empty.
C9_EmptyMessageOnlyFallback ==
    /\ (err.some /\ err.val.message = "") =>
          \/ origin.val.op \in
                {"from_status_code", "from_io_error", "new_deserialization_error"}
          \/ (origin.val.op = "new" /\ origin.val.message = "")
    /\ (origin.some /\ origin.val.op = "from_known_error") =>
          /\ err.val.reason # ""
          /\ err.val.message # ""

C9_Witness ==
    /\ origin.some /\ origin.val.op = "new_deserialization_error"
    /\ err.val.message = ""
    /\ err.val.number = 400

\* C10: the error in the envelope converted from an I/O failure is the
\* ActionError converted from any I/O failure, and is the ActionError
\* converted from the bare status 500.
C10_IoConversionsAgree ==
    FromIoConversion =>
        /\ \A e \in IoErrors : env.val.error = ActionError_from_io_Error(e)
        /\ env.val.error = ActionError_from_StatusCode(StatusCode_INTERNAL_SERVER_ERROR)

C10_Witness ==
    /\ FromIoConversion
    /\ err.some /\ origin.val.op = "from_io_error"
    /\ err.val = env.val.error
    /\ env.val.error.reason = "Internal Server Error"

====
